---- MODULE Spec2Model ----
(***************************************************************************)
(* cortex-tenant: the request pipeline of processor.go.                    *)
(*                                                                         *)
(* One inbound request is followed through processor.handle: routing,      *)
(* decoding, the per-tenant partitioning loop, dispatch (one goroutine per *)
(* partition, joined by a WaitGroup), and the reduction of the results to  *)
(* the client's response.  Handlers of different requests share only the   *)
(* shuttingDown flag and the buffer pool.  processor.close runs beside.    *)
(***************************************************************************)
EXTENDS Integers, Sequences, FiniteSets, TLC

VARIABLES
    cfg,            \* processor.cfg: the Tenant.LabelRemove switch
    shuttingDown,   \* processor.shuttingDown (0 or 1)
    closePc,        \* position of processor.close
    hpc,            \* position of processor.handle
    req,            \* the inbound request of the running/last handler (ctx.Request)
    resp,           \* the client's response (ctx.Response)
    wrReqIn,        \* handle's wrReqIn.Timeseries after decoding
    m,              \* handle's map tenant -> WriteRequest (its Timeseries)
    order,          \* dispatch: the order in which range visits the map's keys
    tpc,            \* per goroutine of dispatch: its position
    res,            \* dispatch's res slice
    wg,             \* dispatch's WaitGroup counter
    calls,          \* per goroutine: the outbound requests p.cli.Do was given
    down,           \* per goroutine: what send came back with
    writes,         \* per slot of res: how many times it was assigned
    outstanding,    \* buffers taken from bufferPool and not yet put back
    gets,           \* bufferPool.Get calls made for the request in req
    accepted,       \* shuttingDown and the position of close when handle was called
    ptCall,             \* one call of processTimeseries on its own: the series and the outcome
    pool            \* bufferPool and the handle and send calls that share it

vars == <<cfg, shuttingDown, closePc, hpc, req, resp, wrReqIn, m, order,
          tpc, res, wg, calls, down, writes, outstanding, gets, accepted, ptCall, pool>>

\* The variables of the request pipeline.
pipeline == <<cfg, shuttingDown, closePc, hpc, req, resp, wrReqIn, m, order,
              tpc, res, wg, calls, down, writes, outstanding, gets, accepted>>

----------------------------------------------------------------------------
(* Bounds *)

\* Longest inbound payload, in series.
MaxSeries == 2

\* Longest label list processTimeseries is called on by itself.
MaxLabels == 3

\* Most goroutines one dispatch starts, where the buffers are followed.
MaxTasks == 1

----------------------------------------------------------------------------
(* Configuration: p.cfg.Tenant *)

TenantLabel == "tenant"
DefaultTenant == "default"
TenantHeader == "X-Scope-OrgID"

----------------------------------------------------------------------------
(* Inputs *)

Label(n, v) == [name |-> n, value |-> v]

\* Label lists of the inbound series: no label, no tenant label, the tenant
\* label alone, the tenant label with the empty value, and the tenant label
\* twice, after another label.
LabelLists ==
    { <<>>,
      <<Label("job", "x")>>,
      <<Label(TenantLabel, "a")>>,
      <<Label(TenantLabel, "")>>,
      <<Label("job", "x"), Label(TenantLabel, "b"), Label(TenantLabel, "a")>> }

\* The labels of the series processTimeseries is called on by itself: the
\* tenant label with the empty and with two other values, and two other
\* labels.
LabelAlphabet ==
    { Label(TenantLabel, ""), Label(TenantLabel, "a"), Label(TenantLabel, "b"),
      Label("job", "x"), Label("env", "y") }

RECURSIVE SeqsUpTo(_, _)
SeqsUpTo(S, n) ==
    IF n = 0 THEN { <<>> }
    ELSE LET shorter == SeqsUpTo(S, n - 1)
         IN  shorter \cup { Append(s, x) : s \in { t \in shorter : Len(t) = n - 1 }, x \in S }

\* Bodies of inbound requests: not Snappy, Snappy but not a WriteRequest, or
\* an encoded WriteRequest with the listed series.
Bodies ==
    { [kind |-> "garbage", ts |-> <<>>], [kind |-> "snappy-garbage", ts |-> <<>>] }
    \cup { [kind |-> "write", ts |-> p] : p \in SeqsUpTo(LabelLists, MaxSeries) }

Requests ==
    { [method |-> "POST", path |-> "/push", body |-> b] : b \in Bodies }
    \cup { [method |-> mt, path |-> pa, body |-> [kind |-> "garbage", ts |-> <<>>]] :
             mt \in {"GET", "POST"}, pa \in {"/alive", "/push", "/other"} }

NoErr == [kind |-> "none", msg |-> ""]

\* What the downstream target, or the transport to it, answers to one call.
\* The status of a response that arrived is never 0.
Replies ==
    { [code |-> 0, body |-> "", err |-> [kind |-> "transport", msg |-> "dial timeout"]],
      [code |-> 0, body |-> "", err |-> [kind |-> "transport", msg |-> "connection reset"]],
      [code |-> 200, body |-> "ok", err |-> NoErr],
      [code |-> 429, body |-> "limit", err |-> NoErr],
      [code |-> 503, body |-> "no ingesters", err |-> NoErr] }

\* wr.MarshalTo failing.
EncodeFailure == [code |-> 0, body |-> "", err |-> [kind |-> "encode", msg |-> "marshal failed"]]

----------------------------------------------------------------------------
(* The wire codec, as far as handle and send see it *)

\* Faulty variant of Decode: the errors of snappy.Decode and proto.Unmarshal
\* are not looked at, and an undecodable body counts as an empty WriteRequest.
DecodeIgnoringErrors(body) ==
    IF body.kind \in {"garbage", "snappy-garbage"}
    THEN [err |-> "", ts |-> <<>>]
    ELSE [err |-> "", ts |-> [k \in 1..Len(body.ts) |-> [id |-> k, labels |-> body.ts[k]]]]

\* snappy.Decode followed by proto.Unmarshal.  A decoded series is an object
\* of its own: id is its identity (its position in the inbound payload),
\* labels its Labels slice.
Decode(body) ==
    IF body.kind = "garbage"
    THEN [err |-> "Unable to unpack Snappy", ts |-> <<>>]
    ELSE IF body.kind = "snappy-garbage"
    THEN [err |-> "Unable to unmarshal protobuf", ts |-> <<>>]
    ELSE [err |-> "", ts |-> [k \in 1..Len(body.ts) |-> [id |-> k, labels |-> body.ts[k]]]]

\* wr.MarshalTo followed by snappy.Encode: the bytes carry the series'
\* labels, in order, and nothing of the objects' identity.
Encode(tss) == [kind |-> "write", ts |-> [k \in 1..Len(tss) |-> tss[k].labels]]

----------------------------------------------------------------------------
(* processTimeseries *)

\* Faulty variant of FirstTenantLabel: the scan does not break at its first
\* match and ends with the last one.
LastTenantLabel(labels) ==
    IF \E i \in 1..Len(labels) : labels[i].name = TenantLabel
    THEN CHOOSE i \in 1..Len(labels) :
            /\ labels[i].name = TenantLabel
            /\ \A j \in (i + 1)..Len(labels) : labels[j].name # TenantLabel
    ELSE 0

\* The index the scan breaks at: the first label named as the tenant label
\* (0: the loop ran to its end).
FirstTenantLabel(labels) ==
    IF \E i \in 1..Len(labels) : labels[i].name = TenantLabel
    THEN CHOOSE i \in 1..Len(labels) :
            /\ labels[i].name = TenantLabel
            /\ \A j \in 1..(i - 1) : labels[j].name # TenantLabel
    ELSE 0

\* Faulty variant of processTimeseries: the label is removed before the test
\* of the empty tenant, at labelIdx, which is still the first index when the
\* scan found nothing.
processTimeseriesRemoveFirst(labels, remove) ==
    LET labelIdx == FirstTenantLabel(labels)
        tenant == IF labelIdx = 0 THEN "" ELSE labels[labelIdx].value
        at == IF labelIdx = 0 THEN 1 ELSE labelIdx
        l == Len(labels)
        left == IF remove /\ l > 0
                THEN SubSeq([labels EXCEPT ![at] = labels[l]], 1, l - 1)
                ELSE labels
    IN  [tenant |-> IF tenant = "" THEN DefaultTenant ELSE tenant, labels |-> left]

\* Faulty variant of processTimeseries: the Labels are cut by one without
\* the last label being moved to labelIdx first.
processTimeseriesCutLast(labels, remove) ==
    LET labelIdx == FirstTenantLabel(labels)
        tenant == IF labelIdx = 0 THEN "" ELSE labels[labelIdx].value
        l == Len(labels)
    IN  IF tenant = ""
        THEN [tenant |-> DefaultTenant, labels |-> labels]
        ELSE IF remove
        THEN [tenant |-> tenant, labels |-> SubSeq(labels, 1, l - 1)]
        ELSE [tenant |-> tenant, labels |-> labels]

\* The tenant processTimeseries returns and the Labels it leaves in the series.
processTimeseries(labels, remove) ==
    LET labelIdx == FirstTenantLabel(labels)
        tenant == IF labelIdx = 0 THEN "" ELSE labels[labelIdx].value
        l == Len(labels)
    IN  IF tenant = ""
        THEN [tenant |-> DefaultTenant, labels |-> labels]
        ELSE IF remove
        THEN [tenant |-> tenant,
              labels |-> SubSeq([labels EXCEPT ![labelIdx] = labels[l]], 1, l - 1)]
        ELSE [tenant |-> tenant, labels |-> labels]

\* The series of the decoded request once processTimeseries has run on each
\* of them (it edits the series in place).
Processed(tss, remove) ==
    [k \in 1..Len(tss) |->
        [id |-> tss[k].id, labels |-> processTimeseries(tss[k].labels, remove).labels]]

----------------------------------------------------------------------------
(* handle: the partitioning loop *)

EmptyMap == [t \in {} |-> <<>>]

\* Faulty variant of PartitionStep: the map holds WriteRequest values, so the
\* append to the looked-up copy of an existing partition is lost.
PartitionStepOnCopy(mm, tenant, ts) ==
    IF tenant \in DOMAIN mm
    THEN mm
    ELSE mm @@ (tenant :> <<ts>>)

\* Faulty variant of PartitionStep: the series is put in front of its
\* partition instead of behind it.
PartitionStepPrepend(mm, tenant, ts) ==
    IF tenant \in DOMAIN mm
    THEN [mm EXCEPT ![tenant] = <<ts>> \o @]
    ELSE mm @@ (tenant :> <<ts>>)

\* One pass of the loop's body after processTimeseries: look the tenant up,
\* create its WriteRequest when it is new, append the series.
PartitionStep(mm, tenant, ts) ==
    IF tenant \in DOMAIN mm
    THEN [mm EXCEPT ![tenant] = Append(@, ts)]
    ELSE mm @@ (tenant :> <<ts>>)

\* The loop over wrReqIn.Timeseries from series k on.
RECURSIVE PartitionLoop(_, _, _, _)
PartitionLoop(tss, remove, k, mm) ==
    IF k > Len(tss) THEN mm
    ELSE LET pt == processTimeseries(tss[k].labels, remove)
             ts == [id |-> tss[k].id, labels |-> pt.labels]
         IN  PartitionLoop(tss, remove, k + 1, PartitionStep(mm, pt.tenant, ts))

----------------------------------------------------------------------------
(* handle: the reduction of the results *)

ZeroResult == [code |-> 0, body |-> "", err |-> NoErr]

\* Faulty variant of ReduceStep: res is assigned without the test of
\* res.code == 0, so the last non-2xx result stays.
ReduceStepKeepLast(acc, r) ==
    IF r.err # NoErr
    THEN [acc EXCEPT !.err = r.err]
    ELSE IF r.code < 200 \/ r.code > 299
    THEN [acc EXCEPT !.res = r]
    ELSE [acc EXCEPT !.ok = @ + 1]

\* Faulty variant of ReduceStep: the test of the status range is missing, so
\* the first result without an error is kept in res whatever its status.
ReduceStepNoRange(acc, r) ==
    IF r.err # NoErr
    THEN [acc EXCEPT !.err = r.err]
    ELSE IF acc.res.code = 0 THEN [acc EXCEPT !.res = r] ELSE acc

\* One pass of the loop over dispatch's results: acc holds handle's err, res
\* and ok.
ReduceStep(acc, r) ==
    IF r.err # NoErr
    THEN [acc EXCEPT !.err = r.err]
    ELSE IF r.code < 200 \/ r.code > 299
    THEN (IF acc.res.code = 0 THEN [acc EXCEPT !.res = r] ELSE acc)
    ELSE [acc EXCEPT !.ok = @ + 1]

RECURSIVE ReduceLoop(_, _, _)
ReduceLoop(rs, k, acc) ==
    IF k > Len(rs) THEN acc ELSE ReduceLoop(rs, k + 1, ReduceStep(acc, rs[k]))

\* Faulty variant of Respond: the two branches are in the other order, so a
\* non-2xx result hides a failed call.
RespondStatusFirst(acc) ==
    IF acc.res.code # 0
    THEN [status |-> acc.res.code, body |-> acc.res.body]
    ELSE IF acc.err # NoErr
    THEN [status |-> 500, body |-> acc.err.msg]
    ELSE [status |-> 200, body |-> ""]

\* What handle writes to ctx after the loop; an untouched ctx answers 200
\* with no body.
Respond(acc) ==
    IF acc.err # NoErr
    THEN [status |-> 500, body |-> acc.err.msg]
    ELSE IF acc.res.code # 0
    THEN [status |-> acc.res.code, body |-> acc.res.body]
    ELSE [status |-> 200, body |-> ""]

----------------------------------------------------------------------------
(* dispatch and its goroutines *)

\* The orders in which range can visit the keys of the map: any.
KeyOrders(keys) ==
    { o \in [1..Cardinality(keys) -> keys] : \A i, j \in DOMAIN o : i # j => o[i] # o[j] }

\* Faulty variant of GoTenant: the goroutine reads the loop's variable
\* instead of its own argument, and finds the last key in it.
GoTenantOfLoop(i) == order[Len(order)]

\* Faulty variant of Slot: every goroutine reads the index after the loop's
\* first increment.
SlotShared(i) == 1

\* The arguments the goroutine launched in the i-th pass was called with, and
\* the slot of res it assigns (the model counts slots from 1).
GoTenant(i) == order[i]
GoWrReq(i) == m[order[i]]
Slot(i) == i

\* Faulty variant of WaitReturns: one wg.Add too few, so the last goroutine
\* is not waited for.
WaitReturnsEarly(n) == n <= 1

\* wg.Wait returning.
WaitReturns(n) == n = 0

\* What send returns for what p.cli.Do, or the failed MarshalTo, came back with.
SendResult(reply) ==
    IF reply.err # NoErr
    THEN [code |-> 0, body |-> "", err |-> reply.err]
    ELSE [code |-> reply.code, body |-> reply.body, err |-> NoErr]

\* The request send hands to p.cli.Do.
OutboundRequest(tenant, wr) ==
    [method |-> "POST", header |-> TenantHeader, tenant |-> tenant, body |-> Encode(wr)]

----------------------------------------------------------------------------
(* State machine *)

\* No call of processTimeseries on its own.
PtIdle == [labels |-> <<>>, called |-> FALSE, tenant |-> "", out |-> <<>>]

\* No handle or send call at the pool.
PoolIdle == [lease |-> <<>>, pc |-> <<>>, bufs |-> <<>>]

PipelineInit ==
    /\ cfg \in [LabelRemove : BOOLEAN]
    /\ shuttingDown = 0
    /\ closePc = "idle"
    /\ hpc = "idle"
    /\ req = [method |-> "", path |-> "", body |-> [kind |-> "garbage", ts |-> <<>>]]
    /\ resp = [status |-> 200, body |-> ""]
    /\ wrReqIn = <<>>
    /\ m = EmptyMap
    /\ order = <<>>
    /\ tpc = <<>>
    /\ res = <<>>
    /\ wg = 0
    /\ calls = <<>>
    /\ down = <<>>
    /\ writes = <<>>
    /\ outstanding = 0
    /\ gets = 0
    /\ accepted = [flag |-> 0, close |-> "idle"]

Init ==
    /\ PipelineInit
    /\ ptCall = PtIdle
    /\ pool = PoolIdle

\* handle returning before the partitioning loop, with the response rsp,
\* after n buffers were taken and put back.
EarlyReturn(rsp, n) ==
    /\ hpc' = "early"
    /\ resp' = rsp
    /\ wrReqIn' = <<>>
    /\ m' = EmptyMap
    /\ order' = <<>>
    /\ tpc' = <<>>
    /\ res' = <<>>
    /\ wg' = 0
    /\ calls' = <<>>
    /\ down' = <<>>
    /\ writes' = <<>>
    /\ gets' = n
    /\ UNCHANGED outstanding

\* handle from its start down to wg.Wait in dispatch: the decoded series are
\* partitioned, res is made, and one goroutine per key of the map is launched.
\* The buffer taken for the decoding stays out until handle returns.
Dispatch(tss) ==
    /\ wrReqIn' = Processed(tss, cfg.LabelRemove)
    /\ m' = PartitionLoop(tss, cfg.LabelRemove, 1, EmptyMap)
    /\ order' \in KeyOrders(DOMAIN m')
    /\ tpc' = [i \in 1..Cardinality(DOMAIN m') |-> "spawned"]
    /\ res' = [i \in 1..Cardinality(DOMAIN m') |-> ZeroResult]
    /\ wg' = Cardinality(DOMAIN m')
    /\ calls' = [i \in 1..Cardinality(DOMAIN m') |-> <<>>]
    /\ down' = [i \in 1..Cardinality(DOMAIN m') |-> ZeroResult]
    /\ writes' = [i \in 1..Cardinality(DOMAIN m') |-> <<>>]
    /\ outstanding' = outstanding + 1
    /\ gets' = 1
    /\ resp' = [status |-> 200, body |-> ""]
    /\ hpc' = "wait"

\* Faulty variant of Route: the path is tested before the method.
RoutePathFirst(r) ==
    IF r.path = "/alive" THEN "alive"
    ELSE IF r.path # "/push" THEN "unknown"
    ELSE IF r.method # "POST" THEN "not-post"
    ELSE "push"

\* The tests handle makes before it takes a buffer, in their order.
Route(r) ==
    IF r.path = "/alive" THEN "alive"
    ELSE IF r.method # "POST" THEN "not-post"
    ELSE IF r.path # "/push" THEN "unknown"
    ELSE "push"

\* Faulty variant of AliveStatus: the flag is not looked at.
AliveStatusIgnoringFlag(flag) == 200

\* The status of the answer to /alive, for the value loaded from shuttingDown.
AliveStatus(flag) == IF flag = 1 THEN 503 ELSE 200

\* The server calls handle for an inbound request r.
handle(r) ==
    /\ hpc = "idle"
    /\ closePc # "shutdown"
    /\ req' = r
    /\ accepted' = [flag |-> shuttingDown, close |-> closePc]
    /\ IF Route(r) = "alive"
       THEN EarlyReturn([status |-> AliveStatus(shuttingDown), body |-> ""], 0)
       ELSE IF Route(r) = "not-post"
       THEN EarlyReturn([status |-> 400, body |-> "Expecting POST"], 0)
       ELSE IF Route(r) = "unknown"
       THEN EarlyReturn([status |-> 404, body |-> "Unknown URL"], 0)
       ELSE IF Decode(r.body).err # ""
       THEN EarlyReturn([status |-> 400, body |-> Decode(r.body).err], 1)
       ELSE Dispatch(Decode(r.body).ts)
    /\ UNCHANGED <<ptCall, pool, cfg, shuttingDown, closePc>>

\* Goroutine i: send takes its two buffers, encodes the partition and hands
\* the request to p.cli.Do.
goSend(i) ==
    /\ i \in DOMAIN tpc
    /\ tpc[i] = "spawned"
    /\ tpc' = [tpc EXCEPT ![i] = "calling"]
    /\ calls' = [calls EXCEPT ![i] = Append(@, OutboundRequest(GoTenant(i), GoWrReq(i)))]
    /\ outstanding' = outstanding + 2
    /\ gets' = gets + 2
    /\ UNCHANGED <<ptCall, pool, cfg, shuttingDown, closePc, hpc, req, resp, wrReqIn, m, order,
                   res, wg, down, writes, accepted>>

\* Faulty variant of goEncodeFail: the buffers are put back at the end of
\* send only, and the return after a failed MarshalTo keeps them.
goEncodeFailLeaking(i) ==
    /\ i \in DOMAIN tpc
    /\ tpc[i] = "spawned"
    /\ tpc' = [tpc EXCEPT ![i] = "done"]
    /\ down' = [down EXCEPT ![i] = EncodeFailure]
    /\ res' = [res EXCEPT ![Slot(i)] = SendResult(EncodeFailure)]
    /\ writes' = [writes EXCEPT ![Slot(i)] = Append(@, i)]
    /\ wg' = wg - 1
    /\ gets' = gets + 2
    /\ outstanding' = outstanding + 2
    /\ UNCHANGED <<ptCall, pool, cfg, shuttingDown, closePc, hpc, req, resp, wrReqIn, m, order,
                   calls, accepted>>

\* Faulty variant of goEncodeFail: the goroutine returns on the error of
\* send before it reaches wg.Done.
goEncodeFailNoDone(i) ==
    /\ i \in DOMAIN tpc
    /\ tpc[i] = "spawned"
    /\ tpc' = [tpc EXCEPT ![i] = "done"]
    /\ down' = [down EXCEPT ![i] = EncodeFailure]
    /\ res' = [res EXCEPT ![Slot(i)] = SendResult(EncodeFailure)]
    /\ writes' = [writes EXCEPT ![Slot(i)] = Append(@, i)]
    /\ gets' = gets + 2
    /\ UNCHANGED <<ptCall, pool, cfg, shuttingDown, closePc, hpc, req, resp, wrReqIn, m, order,
                   calls, outstanding, accepted, wg>>

\* Goroutine i: MarshalTo fails, send returns the error with both buffers put
\* back, the goroutine stores the result and is done.
goEncodeFail(i) ==
    /\ i \in DOMAIN tpc
    /\ tpc[i] = "spawned"
    /\ tpc' = [tpc EXCEPT ![i] = "done"]
    /\ down' = [down EXCEPT ![i] = EncodeFailure]
    /\ res' = [res EXCEPT ![Slot(i)] = SendResult(EncodeFailure)]
    /\ writes' = [writes EXCEPT ![Slot(i)] = Append(@, i)]
    /\ wg' = wg - 1
    /\ gets' = gets + 2
    /\ UNCHANGED <<ptCall, pool, cfg, shuttingDown, closePc, hpc, req, resp, wrReqIn, m, order,
                   calls, outstanding, accepted>>

\* Faulty variant of goReturn: the first failure is taken for the whole
\* request, and a goroutine that finishes after a failed one records that
\* failure instead of its own outcome.
goReturnFirstFailure(i, reply) ==
    /\ i \in DOMAIN tpc
    /\ tpc[i] = "calling"
    /\ tpc' = [tpc EXCEPT ![i] = "done"]
    /\ down' = [down EXCEPT ![i] = reply]
    /\ res' = [res EXCEPT ![Slot(i)] =
                  IF \E j \in DOMAIN res : res[j].err # NoErr
                  THEN res[CHOOSE j \in DOMAIN res : res[j].err # NoErr]
                  ELSE SendResult(reply)]
    /\ writes' = [writes EXCEPT ![Slot(i)] = Append(@, i)]
    /\ wg' = wg - 1
    /\ outstanding' = outstanding - 2
    /\ UNCHANGED <<ptCall, pool, cfg, shuttingDown, closePc, hpc, req, resp, wrReqIn, m, order, calls,
                   gets, accepted>>

\* Faulty variant of goReturn: a call that failed in the transport is issued
\* once more before its outcome is taken.
goReturnRetrying(i, reply) ==
    /\ i \in DOMAIN tpc
    /\ tpc[i] = "calling"
    /\ IF reply.err # NoErr /\ Len(calls[i]) < 2
       THEN /\ calls' = [calls EXCEPT ![i] = Append(@, OutboundRequest(GoTenant(i), GoWrReq(i)))]
            /\ UNCHANGED <<tpc, down, res, writes, wg, outstanding>>
       ELSE /\ tpc' = [tpc EXCEPT ![i] = "done"]
            /\ down' = [down EXCEPT ![i] = reply]
            /\ res' = [res EXCEPT ![Slot(i)] = SendResult(reply)]
            /\ writes' = [writes EXCEPT ![Slot(i)] = Append(@, i)]
            /\ wg' = wg - 1
            /\ outstanding' = outstanding - 2
            /\ UNCHANGED calls
    /\ UNCHANGED <<ptCall, pool, cfg, shuttingDown, closePc, hpc, req, resp, wrReqIn, m, order, gets,
                   accepted>>

\* Goroutine i: p.cli.Do comes back with reply, send returns with both
\* buffers put back, the goroutine stores the result and is done.
goReturn(i, reply) ==
    /\ i \in DOMAIN tpc
    /\ tpc[i] = "calling"
    /\ tpc' = [tpc EXCEPT ![i] = "done"]
    /\ down' = [down EXCEPT ![i] = reply]
    /\ res' = [res EXCEPT ![Slot(i)] = SendResult(reply)]
    /\ writes' = [writes EXCEPT ![Slot(i)] = Append(@, i)]
    /\ wg' = wg - 1
    /\ outstanding' = outstanding - 2
    /\ UNCHANGED <<ptCall, pool, cfg, shuttingDown, closePc, hpc, req, resp, wrReqIn, m, order, calls,
                   gets, accepted>>

\* dispatch returns from wg.Wait, handle reduces the results, answers the
\* client and returns (its buffer goes back to the pool).
join ==
    /\ hpc = "wait"
    /\ WaitReturns(wg)
    /\ resp' = Respond(ReduceLoop(res, 1, [err |-> NoErr, res |-> ZeroResult, ok |-> 0]))
    /\ hpc' = "done"
    /\ outstanding' = outstanding - 1
    /\ UNCHANGED <<ptCall, pool, cfg, shuttingDown, closePc, req, wrReqIn, m, order, tpc, res, wg,
                   calls, down, writes, gets, accepted>>

\* handle has returned: the server sends the response, and the connection is
\* ready for its next request.
served ==
    /\ hpc \in {"early", "done"}
    /\ hpc' = "idle"
    /\ resp' = [status |-> 200, body |-> ""]
    /\ wrReqIn' = <<>>
    /\ m' = EmptyMap
    /\ order' = <<>>
    /\ tpc' = <<>>
    /\ res' = <<>>
    /\ wg' = 0
    /\ calls' = <<>>
    /\ down' = <<>>
    /\ writes' = <<>>
    /\ gets' = 0
    /\ accepted' = [flag |-> 0, close |-> "idle"]
    /\ UNCHANGED <<ptCall, pool, cfg, shuttingDown, closePc, req, outstanding>>

\* Faulty variant of closeBegin: the sleep begins with the flag not stored.
closeBeginSleepFirst ==
    /\ closePc = "idle"
    /\ closePc' = "sleeping"
    /\ UNCHANGED <<ptCall, pool, cfg, shuttingDown, hpc, req, resp, wrReqIn, m, order, tpc, res, wg,
                   calls, down, writes, outstanding, gets, accepted>>

\* close: the flag is stored, and the sleep begins.
closeBegin ==
    /\ closePc = "idle"
    /\ shuttingDown' = 1
    /\ closePc' = "sleeping"
    /\ UNCHANGED <<ptCall, pool, cfg, hpc, req, resp, wrReqIn, m, order, tpc, res, wg, calls, down,
                   writes, outstanding, gets, accepted>>

\* close: the sleep is over, p.srv.Shutdown is called: no further request
\* is accepted.
closeShutdown ==
    /\ closePc = "sleeping"
    /\ closePc' = "shutdown"
    /\ UNCHANGED <<ptCall, pool, cfg, shuttingDown, hpc, req, resp, wrReqIn, m, order, tpc, res, wg,
                   calls, down, writes, outstanding, gets, accepted>>

Next ==
    \/ \E r \in Requests : handle(r)
    \/ \E i \in DOMAIN tpc : goSend(i)
    \/ \E i \in DOMAIN tpc : goEncodeFail(i)
    \/ \E i \in DOMAIN tpc, reply \in Replies : goReturn(i, reply)
    \/ join
    \/ served
    \/ closeBegin
    \/ closeShutdown

Spec == Init /\ [][Next]_vars

\* The scheduler runs every goroutine that can take a step, every call of
\* p.cli.Do comes back, and a handler whose wait is over goes on.
Fairness ==
    /\ \A i \in 1..MaxSeries : WF_vars(goSend(i) \/ goEncodeFail(i))
    /\ \A i \in 1..MaxSeries : WF_vars(\E reply \in Replies : goReturn(i, reply))
    /\ WF_vars(join)

FairSpec == Spec /\ Fairness

----------------------------------------------------------------------------
(* processTimeseries called on one series, for every label list *)

LabelsInit ==
    /\ PipelineInit
    /\ pool = PoolIdle
    /\ ptCall \in { [labels |-> l, called |-> FALSE, tenant |-> "", out |-> l] :
                  l \in SeqsUpTo(LabelAlphabet, MaxLabels) }

\* processTimeseries runs on the series: it returns the tenant and leaves
\* the series with the Labels out.
callProcessTimeseries ==
    /\ ~ptCall.called
    /\ ptCall' = [labels |-> ptCall.labels,
              called |-> TRUE,
              tenant |-> processTimeseries(ptCall.labels, cfg.LabelRemove).tenant,
              out |-> processTimeseries(ptCall.labels, cfg.LabelRemove).labels]
    /\ UNCHANGED <<pipeline, pool>>

LabelsNext == callProcessTimeseries

SpecLabels == LabelsInit /\ [][LabelsNext]_vars

----------------------------------------------------------------------------
(* bufferPool under two concurrent requests and their goroutines *)

\* The requests served at the same time, each by its own call of handle.
Handlers == {1, 2}

\* A call of handle is <<h, 0>>, the call of send in goroutine k of the
\* dispatch of handler h is <<h, k>>; <<0, 0>> stands for the pool.
HandleOps == { <<h, 0>> : h \in Handlers }
SendOps == { <<h, k>> : h \in Handlers, k \in 1..MaxTasks }
Ops == HandleOps \cup SendOps
InPool == <<0, 0>>

\* bufferPool.Get: any of the buffers that lie in the pool, or a new one
\* when none lies there; the caller has it from then on.
PoolGet(lease, op) ==
    IF \E x \in DOMAIN lease : lease[x] = InPool
    THEN { [buf |-> b, lease |-> [lease EXCEPT ![b] = op]] :
             b \in { x \in DOMAIN lease : lease[x] = InPool } }
    ELSE { [buf |-> Len(lease) + 1, lease |-> Append(lease, op)] }

\* bufferPool.Put: the buffer lies in the pool again.
PoolPut(lease, b) == [lease EXCEPT ![b] = InPool]

PoolInit ==
    /\ PipelineInit
    /\ ~cfg.LabelRemove
    /\ ptCall = PtIdle
    /\ pool = [lease |-> <<>>,
               pc |-> [op \in Ops |-> IF op \in HandleOps THEN "idle" ELSE "off"],
               bufs |-> [op \in Ops |-> <<>>]]

\* handle of request h is past its routing tests and takes buf.
handleGet(h) ==
    /\ pool.pc[<<h, 0>>] = "idle"
    /\ \E g \in PoolGet(pool.lease, <<h, 0>>) :
          pool' = [lease |-> g.lease,
                   pc |-> [pool.pc EXCEPT ![<<h, 0>>] = "decode"],
                   bufs |-> [pool.bufs EXCEPT ![<<h, 0>>] = <<g.buf>>]]
    /\ UNCHANGED <<pipeline, ptCall>>

\* snappy.Decode into buf or the Unmarshal fails: handle returns, and the
\* deferred Put gives buf back.
handleDecodeFail(h) ==
    /\ pool.pc[<<h, 0>>] = "decode"
    /\ pool' = [pool EXCEPT !.lease = PoolPut(@, pool.bufs[<<h, 0>>][1]),
                            !.pc[<<h, 0>>] = "returned"]
    /\ UNCHANGED <<pipeline, ptCall>>

\* Faulty variant of handleDispatch: buf is given back once the request is
\* decoded, before the goroutines are started.
handleDispatchReleasing(h, n) ==
    /\ pool.pc[<<h, 0>>] = "decode"
    /\ pool' = [pool EXCEPT
                  !.lease = PoolPut(@, pool.bufs[<<h, 0>>][1]),
                  !.pc = [op \in Ops |->
                            IF op = <<h, 0>> THEN "wait"
                            ELSE IF op[1] = h /\ op[2] \in 1..n THEN "spawned"
                            ELSE pool.pc[op]]]
    /\ UNCHANGED <<pipeline, ptCall>>

\* The request is decoded into buf and partitioned; dispatch starts its n
\* goroutines and waits, handle keeping buf.
handleDispatch(h, n) ==
    /\ pool.pc[<<h, 0>>] = "decode"
    /\ pool' = [pool EXCEPT
                  !.pc = [op \in Ops |->
                            IF op = <<h, 0>> THEN "wait"
                            ELSE IF op[1] = h /\ op[2] \in 1..n THEN "spawned"
                            ELSE pool.pc[op]]]
    /\ UNCHANGED <<pipeline, ptCall>>

\* send takes buf1.
sendGet1(s) ==
    /\ pool.pc[s] = "spawned"
    /\ \E g \in PoolGet(pool.lease, s) :
          pool' = [lease |-> g.lease,
                   pc |-> [pool.pc EXCEPT ![s] = "got1"],
                   bufs |-> [pool.bufs EXCEPT ![s] = <<g.buf>>]]
    /\ UNCHANGED <<pipeline, ptCall>>

\* send takes buf2.
sendGet2(s) ==
    /\ pool.pc[s] = "got1"
    /\ \E g \in PoolGet(pool.lease, s) :
          pool' = [lease |-> g.lease,
                   pc |-> [pool.pc EXCEPT ![s] = "got2"],
                   bufs |-> [pool.bufs EXCEPT ![s] = Append(@, g.buf)]]
    /\ UNCHANGED <<pipeline, ptCall>>

\* MarshalTo writes buf1, snappy.Encode reads it and writes buf2, SetBody
\* copies buf2 into the request, and p.cli.Do is called.
sendEncode(s) ==
    /\ pool.pc[s] = "got2"
    /\ pool' = [pool EXCEPT !.pc[s] = "calling"]
    /\ UNCHANGED <<pipeline, ptCall>>

\* send returns, from the failed MarshalTo or from p.cli.Do: the deferred
\* function gives buf1 back.
sendPut1(s) ==
    /\ pool.pc[s] \in {"got2", "calling"}
    /\ pool' = [pool EXCEPT !.lease = PoolPut(@, pool.bufs[s][1]),
                            !.pc[s] = "put1"]
    /\ UNCHANGED <<pipeline, ptCall>>

\* The deferred function gives buf2 back, and the goroutine is done.
sendPut2(s) ==
    /\ pool.pc[s] = "put1"
    /\ pool' = [pool EXCEPT !.lease = PoolPut(@, pool.bufs[s][2]),
                            !.pc[s] = "returned"]
    /\ UNCHANGED <<pipeline, ptCall>>

\* wg.Wait returns with every goroutine of the request done; handle
\* answers and returns, and the deferred Put gives buf back.
handleReturn(h) ==
    /\ pool.pc[<<h, 0>>] = "wait"
    /\ \A k \in 1..MaxTasks : pool.pc[<<h, k>>] \in {"off", "returned"}
    /\ pool' = [pool EXCEPT !.lease = PoolPut(@, pool.bufs[<<h, 0>>][1]),
                            !.pc[<<h, 0>>] = "returned"]
    /\ UNCHANGED <<pipeline, ptCall>>

PoolNext ==
    \/ \E h \in Handlers : handleGet(h)
    \/ \E h \in Handlers : handleDecodeFail(h)
    \/ \E h \in Handlers, n \in 0..MaxTasks : handleDispatch(h, n)
    \/ \E s \in SendOps : sendGet1(s)
    \/ \E s \in SendOps : sendGet2(s)
    \/ \E s \in SendOps : sendEncode(s)
    \/ \E s \in SendOps : sendPut1(s)
    \/ \E s \in SendOps : sendPut2(s)
    \/ \E h \in Handlers : handleReturn(h)

SpecPool == PoolInit /\ [][PoolNext]_vars

----------------------------------------------------------------------------
(* Properties *)

\* The request in req is a POST to /push.
IsPush == req.method = "POST" /\ req.path = "/push"

\* handle is in or past dispatch for the request in req.
Dispatched == hpc \in {"wait", "done"}

\* The places of the series with identity id in the partitions.
PlacesOf(id) ==
    UNION { { <<t, j>> : j \in { n \in 1..Len(m[t]) : m[t][n].id = id } } : t \in DOMAIN m }

\* The outbound calls made with the tenant t in the tenant header.
CallsFor(t) ==
    UNION { { <<i, n>> : n \in { k \in 1..Len(calls[i]) : calls[i][k].tenant = t } } :
              i \in DOMAIN calls }

Is2xx(code) == code >= 200 /\ code <= 299

Failed(r) == r.err # NoErr

\* C1: once a /push payload is decoded and the partitioning loop has run,
\* every series of the payload is in the partitions exactly once (one place
\* in one partition), as the very object of the payload, and the partitions
\* hold nothing else.
PartitionExactlyOnce ==
    Dispatched =>
        /\ Len(wrReqIn) = Len(req.body.ts)
        /\ \A k \in 1..Len(wrReqIn) : Cardinality(PlacesOf(wrReqIn[k].id)) = 1
        /\ \A t \in DOMAIN m : \A j \in 1..Len(m[t]) :
              /\ m[t][j].id \in 1..Len(wrReqIn)
              /\ m[t][j] = wrReqIn[m[t][j].id]

PartitionExactlyOnceWitness ==
    /\ hpc = "wait"
    /\ Len(wrReqIn) = 2
    /\ \E t \in DOMAIN m : Len(m[t]) = 2

\* C2: every outbound call carries, in the configured tenant header, the key
\* of the partition whose series are its body, whatever the goroutines'
\* interleaving.
HeaderMatchesBody ==
    \A i \in DOMAIN calls : \A n \in 1..Len(calls[i]) :
        /\ calls[i][n].header = TenantHeader
        /\ calls[i][n].tenant \in DOMAIN m
        /\ calls[i][n].body = Encode(m[calls[i][n].tenant])

HeaderMatchesBodyWitness ==
    \E i, j \in DOMAIN calls :
        /\ tpc[i] = "calling" /\ tpc[j] = "done"
        /\ Len(calls[i]) = 1 /\ Len(calls[j]) = 1
        /\ calls[i][1].tenant # calls[j][1].tenant
        /\ calls[i][1].body # calls[j][1].body

AllSuccessGives200 ==
    /\ (hpc = "done" /\ \A i \in DOMAIN res : ~Failed(res[i]) /\ Is2xx(res[i].code)) =>
            resp = [status |-> 200, body |-> ""]
    /\ (Dispatched /\ Len(req.body.ts) = 0) =>
            /\ m = EmptyMap
            /\ tpc = <<>>
            /\ calls = <<>>

AllSuccessGives200Witness ==
    /\ hpc = "done"
    /\ Len(res) = 2
    /\ res[1] = [code |-> 200, body |-> "ok", err |-> NoErr]
    /\ res[2] = [code |-> 200, body |-> "ok", err |-> NoErr]
    /\ Len(calls[1]) = 1 /\ Len(calls[2]) = 1

\* C6: a POST to /push whose body does not decompress or does not
\* deserialize is answered 400 before the partitioning loop: no partition,
\* no goroutine, no outbound call.
DecodeFailureGives400 ==
    (IsPush /\ req.body.kind # "write" /\ hpc # "idle") =>
        /\ hpc = "early"
        /\ resp.status = 400
        /\ m = EmptyMap
        /\ tpc = <<>>
        /\ calls = <<>>

DecodeFailureGives400Witness ==
    /\ hpc = "early"
    /\ IsPush
    /\ req.body.kind = "snappy-garbage"
    /\ resp = [status |-> 400, body |-> "Unable to unmarshal protobuf"]

\* C7: once dispatch has returned and handle has reduced the results, every
\* goroutine launched for the request is done and has assigned its slot.
JoinBeforeReduce ==
    hpc = "done" =>
        \A i \in DOMAIN tpc :
            /\ tpc[i] = "done"
            /\ \E s \in DOMAIN writes : \E n \in 1..Len(writes[s]) : writes[s][n] = i

JoinBeforeReduceWitness ==
    /\ hpc = "done"
    /\ Len(tpc) = 2
    /\ res[1].code = 200
    /\ Failed(res[2])

\* C8: dispatch returns as many results as the map has keys; no slot is
\* ever assigned twice, each is assigned once when dispatch returns, and
\* the goroutines that assigned two slots were launched for two tenants.
OneResultPerPartition ==
    /\ Dispatched => Len(res) = Cardinality(DOMAIN m)
    /\ \A s \in DOMAIN writes : Len(writes[s]) <= 1
    /\ hpc = "done" => \A s \in DOMAIN writes : Len(writes[s]) = 1
    /\ \A s, u \in DOMAIN writes :
          (s # u /\ writes[s] # <<>> /\ writes[u] # <<>>) =>
              order[writes[s][1]] # order[writes[u][1]]

OneResultPerPartitionWitness ==
    /\ hpc = "done"
    /\ Cardinality(DOMAIN m) = 2
    /\ Len(writes[1]) = 1 /\ Len(writes[2]) = 1

\* C9: a goroutine is launched for every partition, each has run to its end
\* when dispatch returns whatever became of the others, and the result in a
\* goroutine's slot is the outcome of its own send.
ResultsIndependent ==
    /\ Dispatched =>
          /\ Len(tpc) = Cardinality(DOMAIN m)
          /\ { order[i] : i \in DOMAIN order } = DOMAIN m
    /\ hpc = "done" => \A i \in DOMAIN tpc : tpc[i] = "done"
    /\ \A i \in DOMAIN tpc :
          tpc[i] = "done" =>
              /\ Len(calls[i]) = 1 \/ down[i] = EncodeFailure
              /\ IF down[i].err # NoErr
                 THEN res[i] = [code |-> 0, body |-> "", err |-> down[i].err]
                 ELSE res[i] = [code |-> down[i].code, body |-> down[i].body, err |-> NoErr]

ResultsIndependentWitness ==
    /\ hpc = "done"
    /\ Len(res) = 2
    /\ res[1].err.kind = "transport"
    /\ res[2] = [code |-> 200, body |-> "ok", err |-> NoErr]

\* C10: no partition is sent twice: at most one outbound call carries a
\* tenant's key, and when dispatch returns exactly one does unless that
\* partition's encoding failed, whatever the calls came back with.
NoRetry ==
    /\ \A t \in DOMAIN m : Cardinality(CallsFor(t)) <= 1
    /\ \A i \in DOMAIN calls : Len(calls[i]) <= 1
    /\ hpc = "done" =>
          \A i \in DOMAIN calls :
              Cardinality(CallsFor(order[i])) = IF down[i] = EncodeFailure THEN 0 ELSE 1

NoRetryWitness ==
    /\ hpc = "done"
    /\ Len(res) = 2
    /\ res[1].err.kind = "transport"
    /\ res[2].err.kind = "encode"
    /\ Cardinality(CallsFor(order[1])) = 1
    /\ Cardinality(CallsFor(order[2])) = 0

\* C11: shuttingDown is 0 until close stores 1 and is 1 ever after; /alive
\* is answered 200 when handled with the flag at 0 and 503 when handled with
\* it at 1, whatever the method; a /push accepted with the flag at 0 runs all
\* its goroutines and gets the status its results give, draining or not.
StatusOfResults ==
    IF \E i \in DOMAIN res : Failed(res[i]) THEN 500
    ELSE IF \E i \in DOMAIN res : ~Is2xx(res[i].code)
    THEN res[CHOOSE i \in DOMAIN res :
                /\ ~Is2xx(res[i].code)
                /\ \A j \in 1..(i - 1) : Is2xx(res[j].code)].code
    ELSE 200

DrainingFlag ==
    /\ shuttingDown = IF closePc = "idle" THEN 0 ELSE 1
    /\ (hpc = "early" /\ req.path = "/alive") =>
            resp.status = IF accepted.flag = 1 THEN 503 ELSE 200
    /\ (hpc = "done" /\ accepted.flag = 0) =>
            /\ \A i \in DOMAIN tpc : tpc[i] = "done"
            /\ resp.status = StatusOfResults

DrainingFlagWitness ==
    /\ hpc = "done"
    /\ accepted.flag = 0
    /\ shuttingDown = 1
    /\ Len(res) = 2
    /\ resp.status = 429

\* C12: every buffer taken is put back once on every way out: the buffers
\* out of the pool are the one of a handle waiting in dispatch and the two of
\* each send waiting for its call, and none once handle has returned,
\* whether by a decoding error, after sends that failed to encode or to
\* reach the target, or after success.
BuffersReturned ==
    /\ outstanding = (IF hpc = "wait" THEN 1 ELSE 0)
                        + 2 * Cardinality({ i \in DOMAIN tpc : tpc[i] = "calling" })
    /\ hpc \in {"idle", "early", "done"} => outstanding = 0
    /\ hpc = "done" => gets = 1 + 2 * Len(tpc)
    /\ (hpc = "early" /\ IsPush) => gets = 1

BuffersReturnedWitness ==
    /\ hpc = "done"
    /\ Len(res) = 2
    /\ res[1].err.kind = "encode"
    /\ res[2].err.kind = "transport"
    /\ gets = 5
    /\ outstanding = 0

\* C16: two series of one partition stand there in the order they have in
\* the inbound payload.
StablePartition ==
    Dispatched =>
        \A t \in DOMAIN m : \A j, k \in 1..Len(m[t]) :
            j < k => m[t][j].id < m[t][k].id

StablePartitionWitness ==
    /\ hpc = "wait"
    /\ \E t \in DOMAIN m :
          /\ Len(m[t]) = 2
          /\ m[t][1].labels # m[t][2].labels
          /\ m[t][1].id = 1

\* C17: p.srv.Shutdown is never reached with the flag at 0, and requests
\* are still handled during the sleep of close: /alive handled then is
\* answered 503.
FlagBeforeShutdown ==
    /\ closePc = "shutdown" => shuttingDown = 1
    /\ (hpc = "early" /\ req.path = "/alive" /\ accepted.close = "sleeping") =>
            resp.status = 503

FlagBeforeShutdownWitness ==
    /\ hpc = "early"
    /\ req.path = "/alive"
    /\ accepted.close = "sleeping"
    /\ closePc = "sleeping"
    /\ resp.status = 503

\* C20: buffers are taken and outbound calls made for a POST to /push only;
\* /alive is answered without them whatever the method, any other request
\* that is not a POST is answered 400 whatever its path, and a POST to a path
\* other than /push is answered 404.
RoutingBeforeWork ==
    /\ (gets > 0 \/ outstanding > 0 \/ tpc # <<>> \/ calls # <<>>) => (hpc # "idle" /\ IsPush)
    /\ (hpc = "early" /\ req.path = "/alive") =>
            /\ gets = 0
            /\ resp.status \in {200, 503}
    /\ (hpc = "early" /\ req.path # "/alive" /\ req.method # "POST") =>
            /\ gets = 0
            /\ resp.status = 400
    /\ (hpc = "early" /\ req.method = "POST" /\ req.path \notin {"/alive", "/push"}) =>
            /\ gets = 0
            /\ resp.status = 404

RoutingBeforeWorkWitness ==
    /\ hpc = "early"
    /\ req.method = "GET"
    /\ req.path = "/other"
    /\ resp.status = 400
    /\ gets = 0

\* The label at i is the first of the list named as the tenant label.
IsFirstTenantLabel(labels, i) ==
    /\ labels[i].name = TenantLabel
    /\ \A j \in 1..(i - 1) : labels[j].name # TenantLabel

\* How often the label x stands in the list.
Count(labels, x) == Cardinality({ i \in 1..Len(labels) : labels[i] = x })

\* C13, as claimed: the tenant returned for a series with a label named as
\* the tenant label is the value of the first such label, whatever the value.
FirstTenantLabelAnyValue ==
    ptCall.called =>
        \A i \in 1..Len(ptCall.labels) :
            IsFirstTenantLabel(ptCall.labels, i) => ptCall.tenant = ptCall.labels[i].value

\* C13, amended: the tenant returned for a series with a label named as the
\* tenant label is the value of the first such label when that value is not
\* empty, and the default tenant when it is empty.
FirstTenantLabelWins ==
    ptCall.called =>
        \A i \in 1..Len(ptCall.labels) :
            IsFirstTenantLabel(ptCall.labels, i) =>
                ptCall.tenant = IF ptCall.labels[i].value = "" THEN DefaultTenant
                            ELSE ptCall.labels[i].value

FirstTenantLabelWinsWitness ==
    /\ ptCall.called
    /\ Len(ptCall.labels) = 3
    /\ ptCall.labels[1].name # TenantLabel
    /\ ptCall.labels[2] = Label(TenantLabel, "b")
    /\ ptCall.labels[3] = Label(TenantLabel, "a")
    /\ ptCall.tenant = "b"

\* C14: a series without a label named as the tenant label gets the default
\* tenant and keeps its Labels as they were.
NoTenantLabelGivesDefault ==
    (ptCall.called /\ \A i \in 1..Len(ptCall.labels) : ptCall.labels[i].name # TenantLabel) =>
        /\ ptCall.tenant = DefaultTenant
        /\ ptCall.out = ptCall.labels

NoTenantLabelGivesDefaultWitness ==
    /\ ptCall.called
    /\ cfg.LabelRemove
    /\ ptCall.labels = <<Label("job", "x"), Label("env", "y")>>
    /\ ptCall.tenant = DefaultTenant

\* C15, as claimed: with LabelRemove and a label named as the tenant label in
\* the series, the series is left with one label fewer, none of them named as
\* the tenant label, and all the other labels; without LabelRemove the Labels
\* are as they were.
TenantLabelRemoved ==
    ptCall.called =>
        /\ ~cfg.LabelRemove => ptCall.out = ptCall.labels
        /\ (cfg.LabelRemove /\ \E i \in 1..Len(ptCall.labels) : ptCall.labels[i].name = TenantLabel) =>
              /\ Len(ptCall.out) = Len(ptCall.labels) - 1
              /\ \A j \in 1..Len(ptCall.out) : ptCall.out[j].name # TenantLabel
              /\ \A x \in LabelAlphabet :
                    x.name # TenantLabel => Count(ptCall.out, x) = Count(ptCall.labels, x)

\* C15, amended: with LabelRemove and a first tenant label whose value is not
\* empty, the series is left with one label fewer: that label is gone once,
\* every other label is kept (a further label named as the tenant label
\* too), so no label named as the tenant label is left when the series had
\* one only; with an empty value of the first tenant label, or without
\* LabelRemove, the Labels are as they were.
FirstTenantLabelRemoved ==
    ptCall.called =>
        /\ ~cfg.LabelRemove => ptCall.out = ptCall.labels
        /\ cfg.LabelRemove =>
              \A i \in 1..Len(ptCall.labels) :
                  IsFirstTenantLabel(ptCall.labels, i) =>
                      IF ptCall.labels[i].value = ""
                      THEN ptCall.out = ptCall.labels
                      ELSE /\ Len(ptCall.out) = Len(ptCall.labels) - 1
                           /\ \A x \in LabelAlphabet :
                                 Count(ptCall.out, x) = Count(ptCall.labels, x)
                                                      - (IF x = ptCall.labels[i] THEN 1 ELSE 0)
                           /\ Cardinality({ j \in 1..Len(ptCall.labels) :
                                              ptCall.labels[j].name = TenantLabel }) = 1
                                 => \A j \in 1..Len(ptCall.out) : ptCall.out[j].name # TenantLabel

FirstTenantLabelRemovedWitness ==
    /\ ptCall.called
    /\ cfg.LabelRemove
    /\ ptCall.labels = <<Label(TenantLabel, "a"), Label("job", "x"), Label("env", "y")>>
    /\ ptCall.out = <<Label("env", "y"), Label("job", "x")>>

\* C19: with every goroutine scheduled and every outbound call coming back,
\* a handler that has dispatched a /push request comes out of the wait and
\* returns, whatever the number of partitions; while it waits the response
\* is not written, and the step that ends the wait is the one that writes it.
HandlerCompletes ==
    /\ (hpc = "wait") ~> (hpc = "done")
    /\ [][hpc = "wait" => /\ hpc' \in {"wait", "done"}
                          /\ hpc' = "wait" => resp' = resp]_vars
    /\ [][hpc = "done" => resp' = resp \/ hpc' = "idle"]_vars

HandlerCompletesWitness ==
    /\ hpc = "done"
    /\ IsPush
    /\ Len(tpc) = 0
    /\ wg = 0
    /\ gets = 1

\* The buffers the call op has taken and not given back, by its place in
\* the code.
Holding(op) ==
    IF op \in HandleOps
    THEN IF pool.pc[op] \in {"decode", "wait"} THEN {pool.bufs[op][1]} ELSE {}
    ELSE IF pool.pc[op] = "got1" THEN {pool.bufs[op][1]}
    ELSE IF pool.pc[op] \in {"got2", "calling"} THEN {pool.bufs[op][1], pool.bufs[op][2]}
    ELSE IF pool.pc[op] = "put1" THEN {pool.bufs[op][2]}
    ELSE {}

\* The buffers the next step of the call op reads or writes.
Using(op) ==
    IF op \in HandleOps
    THEN IF pool.pc[op] = "decode" THEN {pool.bufs[op][1]} ELSE {}
    ELSE IF pool.pc[op] = "got2" THEN {pool.bufs[op][1], pool.bufs[op][2]}
    ELSE {}

\* C18: under every interleaving of the two requests and their goroutines,
\* no buffer is held by two calls at once, a buffer a call holds does not lie
\* in the pool nor belong to another call, the two buffers of one send are
\* different, and a call reads and writes only buffers it holds.
BuffersExclusive ==
    /\ \A a \in Ops, b \in Ops : a # b => Holding(a) \cap Holding(b) = {}
    /\ \A a \in Ops : \A x \in Holding(a) : pool.lease[x] = a
    /\ \A a \in Ops : Using(a) \subseteq Holding(a)
    /\ \A s \in SendOps :
          pool.pc[s] \in {"got2", "calling"} => pool.bufs[s][1] # pool.bufs[s][2]

BuffersExclusiveWitness ==
    /\ pool.pc[<<1, 0>>] = "wait"
    /\ pool.pc[<<1, 1>>] = "returned"
    /\ pool.pc[<<2, 0>>] = "wait"
    /\ pool.pc[<<2, 1>>] = "calling"
    /\ pool.bufs[<<2, 0>>][1] = pool.bufs[<<1, 1>>][1]
    /\ pool.bufs[<<2, 1>>][1] = pool.bufs[<<1, 1>>][2]
    /\ Len(pool.lease) = 4

====
